---- MODULE Spec2Model ----
(***************************************************************************)
(* A model of the segregated-free-list allocator of mm.c.                  *)
(*                                                                         *)
(* The arena is the byte region handed out by mem_sbrk.  It is modelled as *)
(* a sequence of 4-byte units (mem[i] is the unsigned value stored at      *)
(* address HeapLo + 4*(i-1)), because mm.c reads and writes block headers  *)
(* and footers as 4-byte integers (GET_INT / PUT_INT) and free-list links  *)
(* as the two 32-bit halves of an 8-byte word (GET / PUT, little endian).  *)
(* Every macro and function of mm.c is an operator of the same name that   *)
(* maps a memory to a memory.                                              *)
(*                                                                         *)
(* TLC's integers are 32-bit signed.  All addresses, sizes and offsets of  *)
(* the model are bounded by the arena limit (MaxPages), far below 2^31, so *)
(* the C casts to unsigned / size_t never truncate under Spec.  Requests   *)
(* of 2^32 bytes and more, which the unsigned asize of malloc truncates,   *)
(* are written hi * 2^32 + lo and made under SpecWide.                     *)
(***************************************************************************)
EXTENDS Integers, Sequences, FiniteSets, TLC

VARIABLES
    mem,    \* the arena: 4-byte units from mem_heap_lo to the break
    live,   \* the allocations the caller holds: handed out and not yet released
    last,   \* the latest call: its arguments, its result, what it observed
    junk,   \* what bytes freshly obtained from mem_sbrk hold in this run
    nops,   \* number of allocator calls made so far
    mem_max_addr,   \* memlib's arena limit: the break never passes it
    \* proxy.c
    pc,         \* where each request thread is
    req,        \* the request each thread serves
    hit,        \* what the cache lookup of each thread's request found
    caching,    \* handle_req's local `caching` of each thread
    serverfd,   \* whether each thread holds a connection to the origin server
    wr_mutex,   \* the semaphore of that name
    rd_mutex,   \* the semaphore of that name
    readcnt,    \* the global of that name: threads reading the cache
    cache       \* the cache queue, front first: the requests of its entries

allocVars == <<mem, live, last, junk, nops, mem_max_addr>>
proxyVars == <<pc, req, hit, caching, serverfd, wr_mutex, rd_mutex, readcnt, cache>>
vars == <<mem, live, last, junk, nops, mem_max_addr,
          pc, req, hit, caching, serverfd, wr_mutex, rd_mutex, readcnt, cache>>

(* ------------------------------------------------------------------ *)
(* Parameters (mm.c:60-65)                                            *)
(* ------------------------------------------------------------------ *)
WSIZE == 8
MIN_SIZE == 16
PAGESIZE == 256
ALIGNMENT == 8
NO_LISTS == 11
NULL == 0

(* ------------------------------------------------------------------ *)
(* Bounds of the model                                                 *)
(* ------------------------------------------------------------------ *)
\* mem_sbrk refuses to move the break past the preamble plus MaxPages pages.
MaxPages == 2
\* number of malloc/free/realloc/calloc calls in one run
MaxOps == 4

\* request sizes offered to malloc
Sizes == {8, 12, 40, 248}
\* request sizes offered to realloc of a live block (0 is "free")
ReSizes == {0, 8, 56, 248}
\* request sizes offered to realloc(NULL, .)
NullReSizes == {0, 16}
\* <<nmemb, size>> offered to calloc
CallocArgs == {<<0, 8>>, <<3, 4>>}
\* what freshly obtained arena bytes may hold (memlib does not clear them)
FreshVals == {0, 77777}

(* ------------------------------------------------------------------ *)
(* proxy.c: the request threads and what main sets up (proxy.c:89-112) *)
(* ------------------------------------------------------------------ *)
\* number of request threads main creates
MaxThreads == 3
Threads == 1..MaxThreads
\* the requests clients send, told apart by what the cache compares
Requests == {"a", "b"}
\* no request yet
NoRequest == "none"

\* Sem_init(&wr_mutex, 0, 1) and Sem_init(&rd_mutex, 0, 1)
WrMutexInit == 1
RdMutexInit == 1

\* the proxy when main has initialised the cache and the semaphores and has
\* created no thread yet
main ==
    /\ pc = [t \in Threads |-> "idle"]
    /\ req = [t \in Threads |-> NoRequest]
    /\ hit = [t \in Threads |-> FALSE]
    /\ caching = [t \in Threads |-> 1]
    /\ serverfd = [t \in Threads |-> FALSE]
    /\ wr_mutex = WrMutexInit
    /\ rd_mutex = RdMutexInit
    /\ readcnt = 0
    /\ cache = <<>>

(* ------------------------------------------------------------------ *)
(* memlib: the arena primitive                                        *)
(* ------------------------------------------------------------------ *)
\* the first address of the arena (what the first mem_sbrk returns), 8-aligned
HeapLo == 4096
\* the arena limit of the runs of MaxPages pages
MaxHeapAddr == HeapLo + (3 + NO_LISTS) * WSIZE + MaxPages * PAGESIZE

\* the arena limit that leaves room for `bytes` bytes of blocks
ArenaLimit(bytes) == HeapLo + (3 + NO_LISTS) * WSIZE + bytes

\* the break: first address past the arena
Brk(m) == HeapLo + 4 * Len(m)

\* mem_sbrk(incr): the old break, or -1 when the arena limit would be passed
mem_sbrk(m, incr) == IF Brk(m) + incr > mem_max_addr THEN -1 ELSE Brk(m)

\* the arena after a successful mem_sbrk(incr); the new bytes hold `fill`
Extend(m, incr, fill) == m \o [i \in 1..(incr \div 4) |-> fill]

(* ------------------------------------------------------------------ *)
(* Raw memory access (mm.c:68-73)                                     *)
(* ------------------------------------------------------------------ *)
H(p) == (p - HeapLo) \div 4 + 1
\* the value of the 4-byte unit with index j, 0 outside the arena
Unit(m, j) == IF j >= 1 /\ j <= Len(m) THEN m[j] ELSE 0
SetUnit(m, j, val) == IF j >= 1 /\ j <= Len(m) THEN [m EXCEPT ![j] = val] ELSE m

GET_INT(m, p) == Unit(m, H(p))
PUT_INT(m, p, val) == SetUnit(m, H(p), val)

\* an 8-byte word as <<low 32 bits, high 32 bits>>
GET(m, p) == <<GET_INT(m, p), GET_INT(m, p + 4)>>
PUT(m, p, w) == PUT_INT(PUT_INT(m, p, w[1]), p + 4, w[2])

\* a pointer as an 8-byte word and back (addresses are below 2^32)
PtrWord(ptr) == <<ptr, 0>>
WordPtr(w) == w[1]

RECURSIVE BitOr(_, _)
BitOr(a, b) ==
    IF a = 0 THEN b
    ELSE IF b = 0 THEN a
    ELSE (IF a % 2 = 1 \/ b % 2 = 1 THEN 1 ELSE 0) + 2 * BitOr(a \div 2, b \div 2)

MAX(x, y) == IF x > y THEN x ELSE y
PACK(size, alloc) == BitOr(size, alloc)

(* ------------------------------------------------------------------ *)
(* The global `heap` and the packed free-list links (mm.c:95-122)     *)
(* ------------------------------------------------------------------ *)
\* `heap` after mm_init: the prologue's block pointer
heap == HeapLo + (2 + NO_LISTS) * WSIZE
FULL_HEAP == heap - (NO_LISTS + 1) * WSIZE
INDEX == FULL_HEAP

SEE_NEXT(w) == w[1]
SEE_PREV(w) == w[2]
NEXTP(w) == IF SEE_NEXT(w) # 0 THEN INDEX + SEE_NEXT(w) ELSE 0
PREVP(w) == IF SEE_PREV(w) # 0 THEN INDEX + SEE_PREV(w) ELSE 0

CLEAR_NEXT(m, dest) == PUT(m, dest, <<0, GET(m, dest)[2]>>)
CLEAR_PREV(m, dest) == PUT(m, dest, <<GET(m, dest)[1], 0>>)
PUT_NPTR(m, dest, val) ==
    PUT(m, dest, <<BitOr(GET(m, dest)[1], val - INDEX), GET(m, dest)[2]>>)
PUT_PPTR(m, dest, val) ==
    PUT(m, dest, <<GET(m, dest)[1], BitOr(GET(m, dest)[2], val - INDEX)>>)
PUT_PREV(m, dest, val) == PUT_PPTR(CLEAR_PREV(m, dest), dest, val)
PUT_NEXT(m, dest, val) == PUT_NPTR(CLEAR_NEXT(m, dest), dest, val)

(* ------------------------------------------------------------------ *)
(* Boundary tags (mm.c:143-160)                                       *)
(* ------------------------------------------------------------------ *)
FULL_HDR(bp) == bp - WSIZE
PREV(p) == p + 4
THIS(p) == p
GET_SIZE(m, p) == LET v == GET_INT(m, p) IN v - (v % 8)
GET_ALLOC(m, p) == GET_INT(m, p) % 2
HDR(bp) == THIS(FULL_HDR(bp))
FTR(m, bp) == PREV(bp + GET_SIZE(m, HDR(bp)) - WSIZE)
\* variant: the next block computed from the raw header word, allocation bit
\* included
NEXT_BLK_raw(m, bp) == bp + GET_INT(m, THIS(FULL_HDR(bp)))
NEXT_BLK(m, bp) == bp + GET_SIZE(m, THIS(FULL_HDR(bp)))
PREV_BLK(m, bp) == bp - GET_SIZE(m, PREV(FULL_HDR(bp)))
ALIGN(p) == (p + (ALIGNMENT - 1)) - ((p + (ALIGNMENT - 1)) % 8)

(* ------------------------------------------------------------------ *)
(* find_size_bin (mm.c:275-287)                                       *)
(* ------------------------------------------------------------------ *)
RECURSIVE find_size_bin_loop(_, _)
find_size_bin_loop(asize, size_bin) ==
    IF asize > 64 - 1
    THEN find_size_bin_loop(asize \div 2, size_bin + 1)
    ELSE size_bin

\* variant: the first bucket ends at 2^7, as the comment above find_size_bin
\* has it (mm.c:270-273)
find_size_bin_cut_128(asize) ==
    LET size_bin == find_size_bin_loop(asize \div 2, 0)
    IN  IF size_bin >= NO_LISTS - 1 THEN NO_LISTS - 1 ELSE size_bin

find_size_bin(asize) ==
    LET size_bin == find_size_bin_loop(asize, 0)
    IN  IF size_bin >= NO_LISTS - 1 THEN NO_LISTS - 1 ELSE size_bin

(* ------------------------------------------------------------------ *)
(* The C functions below are sequences of statements.  Each statement  *)
(* maps the arena to the arena, so a function body is a composition:   *)
(* where a later statement reads what an earlier one wrote, the rest   *)
(* of the body is an operator of its own that takes the arena reached   *)
(* so far as its first parameter.                                      *)
(* ------------------------------------------------------------------ *)
\* PUT_INT(FTR(bp), val): the footer is found through the header as it is now
PUT_FTR(m, bp, val) == PUT_INT(m, FTR(m, bp), val)
\* PUT_INT(HDR(bp), val); PUT_INT(FTR(bp), val)
PUT_TAGS(m, bp, val) == PUT_FTR(PUT_INT(m, HDR(bp), val), bp, val)

(* ------------------------------------------------------------------ *)
(* lifo_insert (mm.c:368-388)                                         *)
(* ------------------------------------------------------------------ *)
\* variant: the back link is written into the block that follows bp in the
\* arena instead of the old head of the list
lifo_insert_prev_neighbour(a, bp, free_list) == PUT_PREV(a, NEXT_BLK(a, bp), bp)

\* PUT_PREV(GET(free_list), bp), after PUT_NEXT(bp, GET(free_list))
lifo_insert_prev(a, bp, free_list) == PUT_PREV(a, WordPtr(GET(a, free_list)), bp)

\* variant: the list is taken to be empty whatever its head holds
lifo_insert_at_as_empty(m, bp, free_list) ==
    CLEAR_PREV(PUT(CLEAR_NEXT(m, bp), free_list, PtrWord(bp)), bp)

\* the body once free_list is known
lifo_insert_at(m, bp, free_list) ==
    CLEAR_PREV(
        PUT(IF GET(m, free_list) # <<0, 0>>
            THEN lifo_insert_prev(PUT_NEXT(m, bp, WordPtr(GET(m, free_list))),
                                  bp, free_list)
            ELSE CLEAR_NEXT(m, bp),
            free_list, PtrWord(bp)),
        bp)

\* variant: the bucket chosen from the payload size rather than the block size
lifo_insert_by_payload(m, bp) ==
    lifo_insert_at(m, bp,
                   FULL_HEAP + find_size_bin(GET_SIZE(m, HDR(bp)) - WSIZE) * WSIZE)

lifo_insert(m, bp) ==
    lifo_insert_at(m, bp, FULL_HEAP + find_size_bin(GET_SIZE(m, HDR(bp))) * WSIZE)

(* ------------------------------------------------------------------ *)
(* remove_from_list (mm.c:396-431)                                    *)
(* ------------------------------------------------------------------ *)
\* variant: the next block's prev pointer is left as it is
remove_skip_prev_stale(a, bp) == a

\* PUT_PREV(NEXTP(GET(bp)), PREVP(GET(bp))), after the PUT_NEXT
remove_skip_prev(a, bp) == PUT_PREV(a, NEXTP(GET(a, bp)), PREVP(GET(a, bp)))

\* if (NEXTP(GET(bp)) != 0) CLEAR_PREV(NEXTP(GET(bp))), after the PUT(free_list)
remove_clear_prev(a, bp) ==
    IF NEXTP(GET(a, bp)) # 0 THEN CLEAR_PREV(a, NEXTP(GET(a, bp))) ELSE a

remove_from_list(m, bp) ==
    LET size_bin == find_size_bin(GET_SIZE(m, HDR(bp)))
        free_list == FULL_HEAP + size_bin * WSIZE
    IN  IF PREVP(GET(m, bp)) # 0
        THEN IF NEXTP(GET(m, bp)) # 0
             THEN remove_skip_prev(
                      PUT_NEXT(m, PREVP(GET(m, bp)), NEXTP(GET(m, bp))), bp)
             ELSE CLEAR_NEXT(m, PREVP(GET(m, bp)))
        ELSE remove_clear_prev(PUT(m, free_list, PtrWord(NEXTP(GET(m, bp)))), bp)

(* ------------------------------------------------------------------ *)
(* coalesce (mm.c:454-496): [mem, bp]                                 *)
(* ------------------------------------------------------------------ *)
\* return (PREV_BLK(bp)), read once lifo_insert has run
coalesce_return_prev(d, bp) == [mem |-> d, bp |-> PREV_BLK(d, bp)]
\* lifo_insert(PREV_BLK(bp)); return (PREV_BLK(bp))
coalesce_insert_prev(c, bp) ==
    coalesce_return_prev(lifo_insert(c, PREV_BLK(c, bp)), bp)

\* case 2 from "PUT_INT(HDR(bp), ...)" on, size being the sum
coalesce_next_tags(a, bp, size) ==
    [mem |-> lifo_insert(PUT_TAGS(a, bp, PACK(size, 0)), bp), bp |-> bp]
\* case 2 after remove_from_list(NEXT_BLK(bp))
coalesce_next(a, bp, size) ==
    coalesce_next_tags(a, bp, size + GET_SIZE(a, HDR(NEXT_BLK(a, bp))))

\* case 3 from "PUT_INT(HDR(PREV_BLK(bp)), ...)" on
coalesce_prev_tags(a, bp, size) ==
    coalesce_insert_prev(
        PUT_FTR(PUT_INT(a, HDR(PREV_BLK(a, bp)), PACK(size, 0)), bp, PACK(size, 0)),
        bp)
\* case 3 after remove_from_list(PREV_BLK(bp))
coalesce_prev(a, bp, size) ==
    coalesce_prev_tags(a, bp, size + GET_SIZE(a, HDR(PREV_BLK(a, bp))))

\* PUT_INT(FTR(NEXT_BLK(bp)), val)
PUT_FTR_NEXT(b, bp, val) == PUT_INT(b, FTR(b, NEXT_BLK(b, bp)), val)
\* case 4 from "PUT_INT(HDR(PREV_BLK(bp)), ...)" on
coalesce_both_tags(a, bp, size) ==
    coalesce_insert_prev(
        PUT_FTR_NEXT(PUT_INT(a, HDR(PREV_BLK(a, bp)), PACK(size, 0)), bp, PACK(size, 0)),
        bp)
\* case 4 after the two remove_from_list
coalesce_both_size(a, bp, size) ==
    coalesce_both_tags(a, bp, size + GET_SIZE(a, HDR(PREV_BLK(a, bp)))
                                   + GET_SIZE(a, FTR(a, NEXT_BLK(a, bp))))
\* variant: case 4 leaves the next block on its list
coalesce_both_keep_next(a, bp, size) == coalesce_both_size(a, bp, size)

\* case 4 after remove_from_list(PREV_BLK(bp))
coalesce_both(a, bp, size) ==
    coalesce_both_size(remove_from_list(a, NEXT_BLK(a, bp)), bp, size)

\* variant: the freed block is listed as it is, no neighbour is merged
coalesce_never(m, bp) == [mem |-> lifo_insert(m, bp), bp |-> bp]

coalesce(m, bp) ==
    LET prev_alloc == GET_ALLOC(m, FTR(m, PREV_BLK(m, bp)))
        next_alloc == GET_ALLOC(m, HDR(NEXT_BLK(m, bp)))
        size == GET_SIZE(m, HDR(bp))
    IN  IF prev_alloc # 0 /\ next_alloc # 0
        THEN [mem |-> lifo_insert(m, bp), bp |-> bp]
        ELSE IF prev_alloc # 0 /\ next_alloc = 0
        THEN coalesce_next(remove_from_list(m, NEXT_BLK(m, bp)), bp, size)
        ELSE IF prev_alloc = 0 /\ next_alloc # 0
        THEN coalesce_prev(remove_from_list(m, PREV_BLK(m, bp)), bp, size)
        ELSE coalesce_both(remove_from_list(m, PREV_BLK(m, bp)), bp, size)

(* ------------------------------------------------------------------ *)
(* grow_heap (mm.c:219-234): [mem, bp], bp = NULL when mem_sbrk fails *)
(* ------------------------------------------------------------------ *)
\* PUT_INT(HDR(NEXT_BLK(bp)), val)
PUT_HDR_NEXT(c, bp, val) == PUT_INT(c, HDR(NEXT_BLK(c, bp)), val)

\* variant: the epilogue header is not written behind the new block
grow_heap_page_no_epilogue(a, bp, size) == coalesce(PUT_TAGS(a, bp, PACK(size, 0)), bp)

\* the new page set free, a being the arena with the break moved
grow_heap_page(a, bp, size) ==
    coalesce(PUT_HDR_NEXT(PUT_TAGS(a, bp, PACK(size, 0)), bp, PACK(0, 1)), bp)

\* variant: the new block's header is written at the old break before
\* mem_sbrk's answer is looked at
grow_heap_size_tag_first(m, size, fill) ==
    IF mem_sbrk(m, size) < 0
    THEN [mem |-> PUT_INT(m, HDR(Brk(m)), PACK(size, 0)), bp |-> NULL]
    ELSE grow_heap_page(Extend(m, size, fill), mem_sbrk(m, size), size)

\* the body once size is known
grow_heap_size(m, size, fill) ==
    IF mem_sbrk(m, size) < 0
    THEN [mem |-> m, bp |-> NULL]
    ELSE grow_heap_page(Extend(m, size, fill), mem_sbrk(m, size), size)

\* variant: the word count is not made even
grow_heap_odd_words(m, words, fill) == grow_heap_size(m, words * WSIZE, fill)

grow_heap(m, words, fill) ==
    grow_heap_size(m, IF words % 2 # 0 THEN (words + 1) * WSIZE ELSE words * WSIZE,
                   fill)

(* ------------------------------------------------------------------ *)
(* mm_init (mm.c:190-212): the arena after a successful mm_init       *)
(* ------------------------------------------------------------------ *)
\* variant: the loop stops one list short (x < NO_LISTS - 1)
ClearLists_one_short(m, x) ==
    SubSeq(m, 1, H(FULL_HEAP + x * WSIZE) - 1)
    \o [i \in 1..(2 * (NO_LISTS - 1 - x)) |-> 0]
    \o SubSeq(m, H(FULL_HEAP + (NO_LISTS - 1) * WSIZE), Len(m))

\* the loop of mm.c:204-206 from index x on: the list heads x .. NO_LISTS - 1
\* are consecutive 8-byte words, each set to 0
ClearLists(m, x) ==
    SubSeq(m, 1, H(FULL_HEAP + x * WSIZE) - 1)
    \o [i \in 1..(2 * (NO_LISTS - x)) |-> 0]
    \o SubSeq(m, H(FULL_HEAP + NO_LISTS * WSIZE), Len(m))

\* the preamble written into the first (3 + NO_LISTS) words, h0 being what
\* mem_sbrk returned
mm_init_preamble(a, h0) ==
    PUT_INT(
        PUT_INT(
            PUT_INT(PUT(a, h0, <<PACK(0, 0), 0>>),
                    THIS(h0 + (NO_LISTS + 1) * WSIZE), PACK(WSIZE, 1)),
            PREV(h0 + (NO_LISTS + 2) * WSIZE), PACK(WSIZE, 1)),
        THIS(h0 + (NO_LISTS + 2) * WSIZE), PACK(0, 1))

mm_init(fill) ==
    grow_heap(
        ClearLists(
            mm_init_preamble(Extend(<<>>, (3 + NO_LISTS) * WSIZE, fill),
                             mem_sbrk(<<>>, (3 + NO_LISTS) * WSIZE)),
            0),
        PAGESIZE \div WSIZE, fill).mem

(* ------------------------------------------------------------------ *)
(* find_fit (mm.c:295-337)                                            *)
(* ------------------------------------------------------------------ *)
\* best_fit starts at 1<<31; TLC's largest integer stands for it
BEST_FIT_INIT == 2147483647

\* variant: only the head of the list is looked at
first_fit_head_only(m, bp, asize) ==
    IF asize <= GET_SIZE(m, HDR(bp)) THEN bp ELSE NULL

\* the do-while of the first-fit buckets: the block found, or NULL
RECURSIVE first_fit(_, _, _)
first_fit(m, bp, asize) ==
    IF asize <= GET_SIZE(m, HDR(bp))
    THEN bp
    ELSE LET nx == NEXTP(GET(m, bp))
         IN  IF nx # 0 THEN first_fit(m, nx, asize) ELSE NULL

\* variant: a block replaces the best so far only when strictly shorter
\* (< best_fit)
RECURSIVE best_fit_scan_strict(_, _, _, _, _)
best_fit_scan_strict(m, bp, asize, best_fitp, best_fit) ==
    LET take == asize <= GET_SIZE(m, HDR(bp)) /\ GET_SIZE(m, HDR(bp)) < best_fit
        fitp == IF take THEN bp ELSE best_fitp
        fit == IF take THEN GET_SIZE(m, HDR(bp)) ELSE best_fit
        nx == NEXTP(GET(m, bp))
    IN  IF nx # 0 THEN best_fit_scan_strict(m, nx, asize, fitp, fit) ELSE fitp

\* the do-while of the last bucket: best_fitp when the list ends
RECURSIVE best_fit_scan(_, _, _, _, _)
best_fit_scan(m, bp, asize, best_fitp, best_fit) ==
    LET take == asize <= GET_SIZE(m, HDR(bp)) /\ GET_SIZE(m, HDR(bp)) <= best_fit
        fitp == IF take THEN bp ELSE best_fitp
        fit == IF take THEN GET_SIZE(m, HDR(bp)) ELSE best_fit
        nx == NEXTP(GET(m, bp))
    IN  IF nx # 0 THEN best_fit_scan(m, nx, asize, fitp, fit) ELSE fitp

\* the for loop over the buckets x .. NO_LISTS-1
RECURSIVE find_fit_from(_, _, _)
find_fit_from(m, x, asize) ==
    IF x >= NO_LISTS THEN NULL
    ELSE LET free_list == FULL_HEAP + x * WSIZE
         IN  IF GET(m, free_list) = <<0, 0>>
             THEN find_fit_from(m, x + 1, asize)
             ELSE IF x = NO_LISTS - 1
             THEN best_fit_scan(m, WordPtr(GET(m, free_list)), asize, NULL, BEST_FIT_INIT)
             ELSE LET bp == first_fit(m, WordPtr(GET(m, free_list)), asize)
                  IN  IF bp # NULL THEN bp ELSE find_fit_from(m, x + 1, asize)

\* variant: the search starts one bucket above the block's own
find_fit_next_bin(m, asize) == find_fit_from(m, find_size_bin(asize) + 1, asize)

find_fit(m, asize) == find_fit_from(m, find_size_bin(asize), asize)

(* ------------------------------------------------------------------ *)
(* place (mm.c:344-362)                                               *)
(* ------------------------------------------------------------------ *)
\* variant: the remainder has to be larger than the minimum block
SplitFits_strict(init_size, asize) == init_size < asize \/ init_size - asize > MIN_SIZE

\* (init_size - asize) >= MIN_SIZE on size_t: a negative difference wraps
SplitFits(init_size, asize) == init_size < asize \/ init_size - asize >= MIN_SIZE

\* variant: the remainder is set free but put on no list
place_remainder_unlisted(c, nb, size) == PUT_TAGS(c, nb, PACK(size, 0))

\* the remainder nb set free and listed
place_remainder(c, nb, size) == lifo_insert(PUT_TAGS(c, nb, PACK(size, 0)), nb)
\* bp = NEXT_BLK(bp), read once the block carries its new size
place_next(c, bp, size) == place_remainder(c, NEXT_BLK(c, bp), size)

\* the body once init_size is known
place_size(m, bp, asize, init_size) ==
    IF SplitFits(init_size, asize)
    THEN place_next(PUT_TAGS(remove_from_list(m, bp), bp, PACK(asize, 1)),
                    bp, init_size - asize)
    ELSE PUT_TAGS(remove_from_list(m, bp), bp, PACK(init_size, 1))

\* variant: a block taken whole stays on its free list
place_keep_listed(m, bp, asize) ==
    IF SplitFits(GET_SIZE(m, HDR(bp)), asize)
    THEN place_size(m, bp, asize, GET_SIZE(m, HDR(bp)))
    ELSE PUT_TAGS(m, bp, PACK(GET_SIZE(m, HDR(bp)), 1))

place(m, bp, asize) == place_size(m, bp, asize, GET_SIZE(m, HDR(bp)))

(* ------------------------------------------------------------------ *)
(* malloc (mm.c:240-266): [mem, ret]                                  *)
(* ------------------------------------------------------------------ *)
\* the adjusted block size of a request (mm.c:249-252, 507-510)
Adjust(size) == IF size <= WSIZE THEN WSIZE + WSIZE ELSE ALIGN(size + WSIZE)

\* after grow_heap, g being what it returned
malloc_grown(g, m, asize) ==
    IF g.bp = NULL
    THEN [mem |-> g.mem, ret |-> NULL]
    ELSE [mem |-> place(g.mem, g.bp, asize), ret |-> g.bp]

\* after find_fit, bp being what it returned
malloc_fit(m, asize, bp, fill) ==
    IF bp # NULL
    THEN [mem |-> place(m, bp, asize), ret |-> bp]
    ELSE malloc_grown(grow_heap(m, MAX(asize, PAGESIZE) \div WSIZE, fill), m, asize)

\* variant: a request of 0 bytes is served like any other
malloc_any_size(m, size, fill) ==
    malloc_fit(m, Adjust(size), find_fit(m, Adjust(size)), fill)

malloc(m, size, fill) ==
    IF size <= 0
    THEN [mem |-> m, ret |-> NULL]
    ELSE malloc_fit(m, Adjust(size), find_fit(m, Adjust(size)), fill)

\* malloc of hi * 2^32 + lo bytes, 0 <= lo < 2^31 - 16.  size is a size_t (64
\* bits) and asize an unsigned (32 bits, mm.c:241): for hi >= 1 neither
\* size <= 0 nor size <= WSIZE holds, ALIGN(size + WSIZE) is
\* hi * 2^32 + ALIGN(lo + WSIZE), and the assignment to asize keeps its low 32
\* bits
AdjustWide(hi, lo) == IF hi = 0 THEN Adjust(lo) ELSE ALIGN(lo + WSIZE)

malloc_wide(m, hi, lo, fill) ==
    IF hi = 0
    THEN malloc(m, lo, fill)
    ELSE malloc_fit(m, AdjustWide(hi, lo), find_fit(m, AdjustWide(hi, lo)), fill)

(* ------------------------------------------------------------------ *)
(* free (mm.c:437-446)                                                *)
(* ------------------------------------------------------------------ *)
\* variant: only the header is marked free, the footer keeps its old value
free_header_only(m, bp) ==
    IF bp = NULL
    THEN m
    ELSE coalesce(PUT_INT(m, HDR(bp), PACK(GET_SIZE(m, HDR(bp)), 0)), bp).mem

free(m, bp) ==
    IF bp = NULL
    THEN m
    ELSE coalesce(PUT_TAGS(m, bp, PACK(GET_SIZE(m, HDR(bp)), 0)), bp).mem

(* ------------------------------------------------------------------ *)
(* memcpy: n bytes in 4-byte units, both ranges inside the arena (the   *)
(* only calls are realloc's).  On ranges that overlap the C             *)
(* standard leaves the result undefined; libc copies either from the   *)
(* low end up or from the high end down, and `dir` is that choice.     *)
(* ------------------------------------------------------------------ *)
\* for (i = 0; i < k; i++) dst[i] = src[i]: when dst lies d units above src
\* inside the source range, unit i >= d re-reads a unit already written
CopyUp(m, dst, src, k) ==
    LET D == H(dst)
        S == H(src)
        d == D - S
    IN  SubSeq(m, 1, D - 1)
        \o [i \in 1..k |->
               IF d > 0 /\ d < k THEN Unit(m, S + ((i - 1) % d)) ELSE Unit(m, S + (i - 1))]
        \o SubSeq(m, D + k, Len(m))

\* for (i = k-1; i >= 0; i--) dst[i] = src[i]: when dst lies d units below src
\* inside the source range, unit i < k-d re-reads a unit already written
CopyDown(m, dst, src, k) ==
    LET D == H(dst)
        S == H(src)
        d == S - D
    IN  SubSeq(m, 1, D - 1)
        \o [i \in 1..k |->
               IF d > 0 /\ d < k
               THEN Unit(m, S + (i - 1) + d * ((k - i) \div d))
               ELSE Unit(m, S + (i - 1))]
        \o SubSeq(m, D + k, Len(m))

memcpy(m, dst, src, n, dir) ==
    IF dir = "up"
    THEN CopyUp(m, dst, src, n \div 4)
    ELSE CopyDown(m, dst, src, n \div 4)

(* ------------------------------------------------------------------ *)
(* realloc (mm.c:500-548): [mem, ret]                                 *)
(* ------------------------------------------------------------------ *)
\* from "Copy previous contents to new block" on: g.bp is the block found or
\* grown, buffer the saved first word, oldsize the old block's size
realloc_copy(g, oldptr, asize, buffer, oldsize, dir) ==
    IF g.bp = NULL
    THEN [mem |-> g.mem, ret |-> NULL]
    ELSE [mem |-> PUT(place(memcpy(g.mem, g.bp + WSIZE, oldptr + WSIZE,
                                   (IF asize < oldsize THEN asize ELSE oldsize)
                                       - WSIZE - WSIZE,
                                   dir),
                            g.bp, asize),
                      g.bp, buffer),
          ret |-> g.bp]

\* after find_fit on the arena a in which oldptr has been freed
realloc_fit(a, bp, oldptr, asize, buffer, oldsize, fill, dir) ==
    realloc_copy(IF bp # NULL
                 THEN [mem |-> a, bp |-> bp]
                 ELSE grow_heap(a, MAX(asize, PAGESIZE) \div WSIZE, fill),
                 oldptr, asize, buffer, oldsize, dir)

\* after free(oldptr)
realloc_freed(a, oldptr, asize, buffer, oldsize, fill, dir) ==
    realloc_fit(a, find_fit(a, asize), oldptr, asize, buffer, oldsize, fill, dir)

\* variant: size 0 is not singled out, the request is served like any other
realloc_no_zero_case(m, oldptr, size, fill, dir) ==
    IF oldptr = NULL
    THEN malloc(m, size, fill)
    ELSE realloc_freed(free(m, oldptr), oldptr, Adjust(size), GET(m, oldptr),
                       GET_SIZE(m, HDR(oldptr)), fill, dir)

\* variant: the fit is searched before the old block is freed
realloc_search_first(m, oldptr, size, fill, dir) ==
    IF size = 0
    THEN [mem |-> free(m, oldptr), ret |-> NULL]
    ELSE IF oldptr = NULL
    THEN malloc(m, size, fill)
    ELSE realloc_fit(free(m, oldptr), find_fit(m, Adjust(size)), oldptr,
                     Adjust(size), GET(m, oldptr), GET_SIZE(m, HDR(oldptr)),
                     fill, dir)

\* variant: when growth fails the arena is put back as it was before the call
realloc_restore_on_failure(m, oldptr, size, fill, dir) ==
    IF size = 0
    THEN [mem |-> free(m, oldptr), ret |-> NULL]
    ELSE IF oldptr = NULL
    THEN malloc(m, size, fill)
    ELSE LET r == realloc_freed(free(m, oldptr), oldptr, Adjust(size), GET(m, oldptr),
                                GET_SIZE(m, HDR(oldptr)), fill, dir)
         IN  IF r.ret = NULL THEN [mem |-> m, ret |-> NULL] ELSE r

realloc(m, oldptr, size, fill, dir) ==
    IF size = 0
    THEN [mem |-> free(m, oldptr), ret |-> NULL]
    ELSE IF oldptr = NULL
    THEN malloc(m, size, fill)
    ELSE realloc_freed(free(m, oldptr), oldptr, Adjust(size), GET(m, oldptr),
                       GET_SIZE(m, HDR(oldptr)), fill, dir)

(* ------------------------------------------------------------------ *)
(* calloc (mm.c:553-561): [mem, ret, bp]; bp is the block malloc gave  *)
(* ------------------------------------------------------------------ *)
\* for (i = 0; i < n; i += 4) PUT_INT(bp + i, 0)
ZeroFill(m, bp, n) ==
    SubSeq(m, 1, H(bp) - 1)
    \o [i \in 1..((n + 3) \div 4) |-> 0]
    \o SubSeq(m, H(bp) + (n + 3) \div 4, Len(m))

\* after malloc, r being what it returned
calloc_fill(r, n) ==
    IF r.ret # NULL
    THEN [mem |-> ZeroFill(r.mem, r.ret, n), ret |-> NULL, bp |-> r.ret]
    ELSE [mem |-> r.mem, ret |-> NULL, bp |-> NULL]

calloc(m, nmemb, size, fill) == calloc_fill(malloc(m, nmemb * size, fill), nmemb * size)

(* ------------------------------------------------------------------ *)
(* Reading the arena the way mm_checkheap does (mm.c:600-627)         *)
(* ------------------------------------------------------------------ *)
\* the implicit list: block pointers from bp up to the zero-size header
RECURSIVE Walk(_, _)
Walk(m, bp) ==
    IF GET_SIZE(m, HDR(bp)) > 0
    THEN <<bp>> \o Walk(m, NEXT_BLK(m, bp))
    ELSE <<>>

\* every block mm_checkheap visits, the prologue first
Blocks(m) == Walk(m, heap)
\* the real blocks: all but the prologue
RealBlocks(m) == Tail(Blocks(m))

\* the members of bucket x in list order; a walk longer than the arena stops
RECURSIVE ListFrom(_, _, _)
ListFrom(m, bp, fuel) ==
    IF bp = 0 \/ fuel = 0
    THEN <<>>
    ELSE <<bp>> \o ListFrom(m, NEXTP(GET(m, bp)), fuel - 1)

Bucket(m, x) == ListFrom(m, WordPtr(GET(m, FULL_HEAP + x * WSIZE)), Len(m))

Range(s) == {s[i] : i \in 1..Len(s)}

\* the payload of block bp: the bytes [bp, bp + size - WSIZE)
PayloadSize(m, bp) == GET_SIZE(m, HDR(bp)) - WSIZE

(* ------------------------------------------------------------------ *)
(* The caller                                                         *)
(* ------------------------------------------------------------------ *)
\* the value the caller stores in the 4-byte unit at address a
Pat(a) == 1000000 + a

\* the caller fills the n bytes it asked for at p
WriteUnits(m, p, n) ==
    SubSeq(m, 1, H(p) - 1)
    \o [i \in 1..((n + 3) \div 4) |-> Pat(p + 4 * (i - 1))]
    \o SubSeq(m, H(p) + (n + 3) \div 4, Len(m))

\* the 4-byte units that hold the first n bytes at p
Units(m, p, n) == [i \in 1..((n + 3) \div 4) |-> GET_INT(m, p + 4 * (i - 1))]

Min(x, y) == IF x < y THEN x ELSE y

\* some free block of the arena is at least asize bytes long
HasFreeBlock(m, asize) ==
    \E bp \in Range(RealBlocks(m)) :
        GET_ALLOC(m, HDR(bp)) = 0 /\ GET_SIZE(m, HDR(bp)) >= asize

Call(op, p, n, k, ret) ==
    [op |-> op, p |-> p, n |-> n, k |-> k, ret |-> ret,
     grew |-> FALSE, fit |-> FALSE, after |-> 0, old |-> <<>>, bp |-> NULL]

(* ------------------------------------------------------------------ *)
(* The state machine                                                  *)
(* ------------------------------------------------------------------ *)
\* an allocation the caller holds: the call that made it, its address, the
\* size asked for
Alloc(id, p, n) == [id |-> id, p |-> p, n |-> n]
\* the null pointer as an argument
NoBlock == Alloc(0, NULL, 0)

Init ==
    /\ junk \in FreshVals
    /\ mem_max_addr = MaxHeapAddr
    /\ mem = mm_init(junk)
    /\ live = {}
    /\ last = Call("mm_init", NULL, 0, 0, 0)
    /\ nops = 0
    /\ main

\* malloc(n); the caller then fills the n bytes it asked for
MallocCall(n) ==
    /\ \E r \in {malloc(mem, n, junk)} :
           /\ mem' = IF r.ret # NULL THEN WriteUnits(r.mem, r.ret, n) ELSE r.mem
           /\ live' = IF r.ret # NULL THEN live \cup {Alloc(nops + 1, r.ret, n)} ELSE live
           /\ last' = [Call("malloc", NULL, n, 0, r.ret) EXCEPT
                         !.grew = Len(r.mem) > Len(mem),
                         !.fit = HasFreeBlock(mem, Adjust(n)),
                         !.after = IF last.op = "free" THEN last.n ELSE 0]
    /\ nops' = nops + 1
    /\ UNCHANGED <<junk, mem_max_addr, proxyVars>>

Malloc(n) == nops < MaxOps /\ MallocCall(n)

\* free(a.p)
FreeCall(a) ==
    /\ mem' = free(mem, a.p)
    /\ live' = live \ {a}
    /\ last' = Call("free", a.p, a.n, 0, NULL)
    /\ nops' = nops + 1
    /\ UNCHANGED <<junk, mem_max_addr, proxyVars>>

Free(a) == nops < MaxOps /\ FreeCall(a)

\* realloc(a.p, n).  When it returns NULL for a.p # NULL and n > 0 the old
\* block has been freed all the same (mm.c:528-533), so the caller has lost it.
Realloc(a, n) ==
    /\ nops < MaxOps
    /\ \E dir \in {"up", "down"} :
         \E r \in {realloc(mem, a.p, n, junk, dir)} :
             /\ mem' = r.mem
             /\ live' = IF r.ret # NULL
                        THEN (live \ {a}) \cup {Alloc(nops + 1, r.ret, n)}
                        ELSE live \ {a}
             /\ last' = [Call("realloc", a.p, n, 0, r.ret) EXCEPT
                           !.grew = Len(r.mem) > Len(mem),
                           !.old = IF a.p # NULL /\ n > 0
                                   THEN Units(mem, a.p, Min(PayloadSize(mem, a.p), n))
                                   ELSE <<>>]
    /\ nops' = nops + 1
    /\ UNCHANGED <<junk, mem_max_addr, proxyVars>>

\* calloc(nmemb, size): it returns NULL whatever malloc gave it (mm.c:560), so
\* the caller never holds the block
Calloc(nmemb, size) ==
    /\ nops < MaxOps
    /\ \E r \in {calloc(mem, nmemb, size, junk)} :
           /\ mem' = r.mem
           /\ last' = [Call("calloc", NULL, nmemb, size, r.ret) EXCEPT
                         !.grew = Len(r.mem) > Len(mem),
                         !.bp = r.bp]
    /\ live' = live
    /\ nops' = nops + 1
    /\ UNCHANGED <<junk, mem_max_addr, proxyVars>>

Next ==
    \/ \E n \in Sizes \cup {0} : Malloc(n)
    \/ \E a \in live \cup {NoBlock} : Free(a)
    \/ \E a \in live, n \in ReSizes : Realloc(a, n)
    \/ \E n \in NullReSizes : Realloc(NoBlock, n)
    \/ \E c \in CallocArgs : Calloc(c[1], c[2])

Spec == Init /\ [][Next]_vars


(* ------------------------------------------------------------------ *)
(* find_size_bin on its own: block sizes around every bucket boundary  *)
(* ------------------------------------------------------------------ *)
MaxExp == 18
RECURSIVE Pow2(_)
Pow2(k) == IF k = 0 THEN 1 ELSE 2 * Pow2(k - 1)
BinSizes == {Pow2(k) + d : k \in 4..MaxExp, d \in {-8, 0, 8, 24}} \ {8}

InitBin ==
    /\ junk \in FreshVals
    /\ mem_max_addr = MaxHeapAddr
    /\ mem = mm_init(junk)
    /\ live = {}
    /\ \E s \in BinSizes : last = Call("size", NULL, s, 0, 0)
    /\ nops = 0
    /\ main

FindSizeBin ==
    /\ last.op = "size"
    /\ last' = Call("find_size_bin", NULL, last.n, 0, find_size_bin(last.n))
    /\ UNCHANGED <<mem, live, junk, nops, mem_max_addr, proxyVars>>

SpecBin == InitBin /\ [][FindSizeBin]_vars

(* ------------------------------------------------------------------ *)
(* Requests of 2^32 bytes and more, among ordinary mallocs and frees   *)
(* ------------------------------------------------------------------ *)
\* the low 32 bits of the wide requests: hi * 2^32 + lo with hi = 1
WideLows == {0, 8}

\* malloc(2^32 + lo); the caller writes nothing into what it gets
MallocWide(lo) ==
    /\ nops < MaxOps
    /\ \E r \in {malloc_wide(mem, 1, lo, junk)} :
           /\ mem' = r.mem
           /\ live' = IF r.ret # NULL THEN live \cup {Alloc(nops + 1, r.ret, 0)} ELSE live
           /\ last' = [Call("malloc_wide", NULL, lo, 1, r.ret) EXCEPT
                         !.grew = Len(r.mem) > Len(mem)]
    /\ nops' = nops + 1
    /\ UNCHANGED <<junk, mem_max_addr, proxyVars>>

NextWide ==
    \/ \E lo \in WideLows : MallocWide(lo)
    \/ \E n \in Sizes : Malloc(n)
    \/ \E a \in live : Free(a)

SpecWide == Init /\ [][NextWide]_vars

(* ------------------------------------------------------------------ *)
(* Callers that follow a plan: the k-th call of a run is one of        *)
(* plan[k].  A plan starts with fixed calls that build an arena and     *)
(* ends with PlanOps calls chosen freely from a set.                    *)
(* ------------------------------------------------------------------ *)
\* number of freely chosen calls at the end of a plan
PlanOps == 3

PlanMalloc(n) == [op |-> "malloc", n |-> n, id |-> 0]
\* free of the block that the id-th call of the run returned
PlanFree(id) == [op |-> "free", n |-> 0, id |-> id]

\* the plan: the fixed calls, then PlanOps calls, each a malloc of one of
\* `sizes` or a free of any block held
PlanOf(fixed, sizes) ==
    fixed \o [k \in 1..PlanOps |->
                 {PlanMalloc(n) : n \in sizes}
                 \cup {PlanFree(id) : id \in 1..(Len(fixed) + PlanOps)}]

FollowMalloc(plan) ==
    /\ nops < Len(plan)
    /\ \E c \in plan[nops + 1] : c.op = "malloc" /\ MallocCall(c.n)

FollowFree(plan) ==
    /\ nops < Len(plan)
    /\ \E c \in plan[nops + 1] :
           c.op = "free" /\ \E a \in live : a.id = c.id /\ FreeCall(a)

\* two pages merged into one free block of 512 bytes, then free calls
PlanSplit ==
    PlanOf(<<{PlanMalloc(248)}, {PlanMalloc(248)}, {PlanFree(1)}, {PlanFree(2)}>>,
           {8, 32, 248, 504})

NextSplit == FollowMalloc(PlanSplit) \/ FollowFree(PlanSplit)

SpecSplit == Init /\ [][NextSplit]_vars

\* three adjacent 32-byte blocks and a fourth block that takes the rest of the
\* page, then free calls
PlanMerge ==
    PlanOf(<<{PlanMalloc(24)}, {PlanMalloc(24)}, {PlanMalloc(24)}, {PlanMalloc(152)}>>,
           {24, 56, 152})

NextMerge == FollowMalloc(PlanMerge) \/ FollowFree(PlanMerge)

SpecMerge == Init /\ [][NextMerge]_vars

\* free blocks of 64, 96 and 112 bytes, kept apart by allocated 16-byte
\* blocks and freed so that the list of bucket 1 is 64, 96, 112, with a longer
\* free block in bucket 2; then free calls
PlanFirstFit ==
    PlanOf(<<{PlanMalloc(88)}, {PlanMalloc(8)}, {PlanMalloc(56)}, {PlanMalloc(8)},
             {PlanMalloc(104)}, {PlanMalloc(8)},
             {PlanFree(5)}, {PlanFree(1)}, {PlanFree(3)}>>,
           {8, 56, 88, 96, 104})

NextFirstFit == FollowMalloc(PlanFirstFit) \/ FollowFree(PlanFirstFit)

SpecFirstFit == Init /\ [][NextFirstFit]_vars

\* blocks of 32768, 32768 and 40000 bytes, each grown on its own and kept
\* apart by allocated pages; then free calls, which free them in any order
PlanBestFit ==
    PlanOf(<<{PlanMalloc(248)}, {PlanMalloc(32760)}, {PlanMalloc(248)},
             {PlanMalloc(32760)}, {PlanMalloc(248)}, {PlanMalloc(39992)}>>,
           {248, 32760, 39992})

InitBestFit ==
    /\ junk \in FreshVals
    /\ mem_max_addr = ArenaLimit(PAGESIZE + 32768 + PAGESIZE + 32768 + PAGESIZE + 40000)
    /\ mem = mm_init(junk)
    /\ live = {}
    /\ last = Call("mm_init", NULL, 0, 0, 0)
    /\ nops = 0
    /\ main

NextBestFit == FollowMalloc(PlanBestFit) \/ FollowFree(PlanBestFit)

SpecBestFit == InitBestFit /\ [][NextBestFit]_vars

\* free blocks of 2000 and of 5000 bytes, each between allocated blocks, then
\* free calls.  grow_heap makes the word count even (626 words for 5000
\* bytes), so the 5000-byte block is cut from a larger one and what is left
\* behind it is allocated too.  The arena has room for just these.
PlanTwoFree ==
    PlanOf(<<{PlanMalloc(1992)}, {PlanMalloc(8)}, {PlanMalloc(4992)},
             {PlanMalloc(240)}, {PlanFree(1)}, {PlanFree(3)}>>,
           {8, 1800, 1992, 4000})

InitTwoFree ==
    /\ junk \in FreshVals
    /\ mem_max_addr = ArenaLimit(PAGESIZE + 2000 + 5008)
    /\ mem = mm_init(junk)
    /\ live = {}
    /\ last = Call("mm_init", NULL, 0, 0, 0)
    /\ nops = 0
    /\ main

NextTwoFree == FollowMalloc(PlanTwoFree) \/ FollowFree(PlanTwoFree)

SpecTwoFree == InitTwoFree /\ [][NextTwoFree]_vars

\* the free blocks of the arena, in address order
FreeBlocks(m) == SelectSeq(RealBlocks(m), LAMBDA bp : GET_ALLOC(m, HDR(bp)) = 0)

(* ================================================================== *)
(* Properties                                                         *)
(* ================================================================== *)
IsFree(m, bp) == GET_ALLOC(m, HDR(bp)) = 0

C2_Aligned ==
    /\ \A a \in live : a.p % 8 = 0
    /\ last.op \in {"malloc", "realloc"} => last.ret % 8 = 0

\* realloc returned a block cut from an arena it had to grow
C2_Witness ==
    /\ last.op = "realloc" /\ last.ret # NULL /\ last.grew
    /\ \E a \in live : a.p # last.ret

C5_BucketMatchesSize ==
    \A x \in 0..(NO_LISTS - 1) :
        \A bp \in Range(Bucket(mem, x)) :
            find_size_bin(GET_SIZE(mem, HDR(bp))) = x

\* a free or a realloc has left free blocks in two different buckets
C5_Witness ==
    /\ last.op \in {"free", "realloc"} /\ last.p # NULL
    /\ Cardinality({x \in 0..(NO_LISTS - 1) : Bucket(mem, x) # <<>>}) >= 2

\* floor(log2(s)) for s >= 1
RECURSIVE Log2(_)
Log2(s) == IF s <= 1 THEN 0 ELSE 1 + Log2(s \div 2)

\* the bucket rule as documented: min(10, floor(log2(s)) - 6), not below 0
DocumentedBucket(s) ==
    LET i == Log2(s) - 6
    IN  IF i < 0 THEN 0 ELSE IF i > NO_LISTS - 1 THEN NO_LISTS - 1 ELSE i

\* C6: find_size_bin(s) = min(10, floor(log2(s)) - 6) clamped below at 0, so that
\* bucket i holds [2^(6+i), 2^(7+i)) and bucket 10 every size from 2^16 on.
C6_BucketIndexFormula ==
    last.op = "find_size_bin" => last.ret = DocumentedBucket(last.n)

\* C7: a realloc(p, n) with p # NULL, n > 0 that returns q # NULL leaves at q the
\* first min(old payload capacity, n) bytes that were at p before the call.
C7_ContentPreserved ==
    (last.op = "realloc" /\ last.p # NULL /\ last.n > 0 /\ last.ret # NULL)
        => Units(mem, last.ret, Min(4 * Len(last.old), last.n)) = last.old

\* C8: malloc grows the arena only when no free block of at least the adjusted
\* size exists; so a malloc(S') right after the free of a block that was asked
\* for with S >= S' does not grow the arena.
C8_GrowOnlyWithoutFit ==
    last.op = "malloc" =>
        /\ last.grew => ~last.fit
        /\ (last.n > 0 /\ last.n <= last.after) => (~last.grew /\ last.ret # NULL)

\* malloc(S') served without growth right after free of a block asked for with S >= S'
C8_Witness ==
    /\ last.op = "malloc" /\ last.n > 0 /\ last.n <= last.after
    /\ last.ret # NULL /\ ~last.grew

\* C9: when its malloc succeeds, calloc(nmemb, size) returns that block, whose
\* first nmemb*size bytes are zero.
C9_CallocReturnsZeroedBlock ==
    (last.op = "calloc" /\ last.bp # NULL) =>
        /\ last.ret = last.bp
        /\ \A i \in 1..((last.n * last.k + 3) \div 4) :
               GET_INT(mem, last.bp + 4 * (i - 1)) = 0

\* C10: a realloc(p, 0) step leaves the arena as free(p) would and returns NULL;
\* a realloc(NULL, n) step leaves the arena as malloc(n) would and returns what
\* malloc(n) returns.
C10_ReallocDegenerate ==
    [][/\ (last'.op = "realloc" /\ last'.n = 0) =>
              (mem' = free(mem, last'.p) /\ last'.ret = NULL)
       /\ (last'.op = "realloc" /\ last'.p = NULL) =>
              (mem' = malloc(mem, last'.n, junk).mem
               /\ last'.ret = malloc(mem, last'.n, junk).ret)]_vars

\* realloc(p, 0) on a held block has just run: the block is free, the caller
\* holds one allocation fewer
C10_Witness ==
    /\ last.op = "realloc" /\ last.p # NULL /\ last.n = 0 /\ last.ret = NULL
    /\ \E bp \in Range(RealBlocks(mem)) :
          IsFree(mem, bp) /\ bp <= last.p /\ last.p < NEXT_BLK(mem, bp)
    /\ live # {}

\* C11: a malloc(n), n > 0, that finds no fit while mem_sbrk refuses the growth
\* returns NULL and leaves the arena (every header, footer, list word and the
\* break) and the caller's allocations as they were.
C11_GrowFailureLeavesHeap ==
    [][(/\ last'.op = "malloc" /\ last'.n > 0
        /\ find_fit(mem, Adjust(last'.n)) = NULL
        /\ mem_sbrk(mem, MAX(Adjust(last'.n), PAGESIZE)) < 0)
       => (last'.ret = NULL /\ mem' = mem /\ live' = live)]_vars

\* a malloc has just failed for lack of arena while the caller holds blocks
C11_Witness ==
    /\ last.op = "malloc" /\ last.n > 0 /\ last.ret = NULL
    /\ find_fit(mem, Adjust(last.n)) = NULL
    /\ mem_sbrk(mem, MAX(Adjust(last.n), PAGESIZE)) < 0
    /\ Cardinality(live) >= 2

\* C12: a malloc(0) step returns NULL and a free(NULL) step returns, each leaving
\* the arena and the caller's allocations as they were.
C12_DegenerateCallsLeaveHeap ==
    [][/\ (last'.op = "malloc" /\ last'.n = 0) =>
              (last'.ret = NULL /\ mem' = mem /\ live' = live)
       /\ (last'.op = "free" /\ last'.p = NULL) =>
              (mem' = mem /\ live' = live)]_vars

\* malloc(0) has just returned NULL on a heap with a held block and a free one
C12_Witness ==
    /\ last.op = "malloc" /\ last.n = 0 /\ last.ret = NULL
    /\ live # {}
    /\ \E bp \in Range(RealBlocks(mem)) : IsFree(mem, bp)

\* C13: every real block (all but the prologue and the epilogue) has a size
\* that is a multiple of 8 and at least 16; the header word holds nothing but
\* the size and the allocation bit.
C13_BlockSizes ==
    \A bp \in Range(RealBlocks(mem)) :
        /\ GET_SIZE(mem, HDR(bp)) >= MIN_SIZE
        /\ (GET_INT(mem, HDR(bp)) - GET_ALLOC(mem, HDR(bp))) % 8 = 0

\* C14 as stated: from an arena whose only free block has 512 bytes,
\* malloc(32) returns that block cut to 48 bytes, and the 464 bytes behind it
\* are a free block listed in the bucket of its size.
C14_Split48 ==
    [][(/\ Len(FreeBlocks(mem)) = 1
        /\ GET_SIZE(mem, HDR(FreeBlocks(mem)[1])) = 512
        /\ last'.op = "malloc" /\ last'.n = 32)
       => (/\ last'.ret = FreeBlocks(mem)[1]
           /\ GET_INT(mem', HDR(last'.ret)) = PACK(48, 1)
           /\ FreeBlocks(mem') = <<last'.ret + 48>>
           /\ GET_INT(mem', HDR(last'.ret + 48)) = PACK(464, 0)
           /\ last'.ret + 48 \in Range(Bucket(mem', find_size_bin(464))))]_vars

\* C14, amended: from an arena whose only free block has 512 bytes, malloc(32)
\* returns that block cut to 40 bytes (32 plus the 8 bytes of header and
\* footer), and the 472 bytes behind it are a free block, the only one, listed
\* in the bucket of its size.
C14_Split40 ==
    [][(/\ Len(FreeBlocks(mem)) = 1
        /\ GET_SIZE(mem, HDR(FreeBlocks(mem)[1])) = 512
        /\ last'.op = "malloc" /\ last'.n = 32)
       => (/\ last'.ret = FreeBlocks(mem)[1]
           /\ GET_INT(mem', HDR(last'.ret)) = PACK(40, 1)
           /\ GET_INT(mem', FTR(mem', last'.ret)) = PACK(40, 1)
           /\ NEXT_BLK(mem', last'.ret) = last'.ret + 40
           /\ FreeBlocks(mem') = <<last'.ret + 40>>
           /\ GET_INT(mem', HDR(last'.ret + 40)) = PACK(472, 0)
           /\ last'.ret + 40 \in Range(Bucket(mem', find_size_bin(472)))
           /\ \A i \in 0..(NO_LISTS - 1) :
                  i # find_size_bin(472) => Bucket(mem', i) = <<>>)]_vars

\* malloc(32) has just cut the 512-byte block that was the whole arena
C14_Witness ==
    /\ last.op = "malloc" /\ last.n = 32 /\ ~last.grew
    /\ RealBlocks(mem) = <<last.ret, last.ret + 40>>
    /\ GET_INT(mem, HDR(last.ret)) = PACK(40, 1)
    /\ GET_INT(mem, HDR(last.ret + 40)) = PACK(472, 0)

\* the free blocks of the arena are one of 2000 and one of 5000 bytes
TwoFree(m) ==
    /\ Len(FreeBlocks(m)) = 2
    /\ {GET_SIZE(m, HDR(bp)) : bp \in Range(FreeBlocks(m))} = {2000, 5000}

\* the free block of the given size
FreeOfSize(m, size) ==
    CHOOSE bp \in Range(FreeBlocks(m)) : GET_SIZE(m, HDR(bp)) = size

C16_InitialHeap ==
    last.op = "mm_init" =>
        /\ GET_INT(mem, HDR(heap)) = PACK(WSIZE, 1)
        /\ GET_INT(mem, FTR(mem, heap)) = PACK(WSIZE, 1)
        /\ Len(RealBlocks(mem)) = 1
        /\ RealBlocks(mem)[1] = NEXT_BLK(mem, heap)
        /\ GET_INT(mem, HDR(RealBlocks(mem)[1])) = PACK(256, 0)
        /\ GET_INT(mem, FTR(mem, RealBlocks(mem)[1])) = PACK(256, 0)
        /\ GET_INT(mem, HDR(NEXT_BLK(mem, RealBlocks(mem)[1]))) = PACK(0, 1)
        /\ NEXT_BLK(mem, RealBlocks(mem)[1]) = Brk(mem)
        /\ Cardinality({x \in 0..(NO_LISTS - 1) : Bucket(mem, x) # <<>>}) = 1
        /\ \E x \in 0..(NO_LISTS - 1) : Bucket(mem, x) = RealBlocks(mem)

\* mm_init has run on an arena whose fresh bytes were not zero
C16_Witness ==
    /\ last.op = "mm_init" /\ nops = 0 /\ junk # 0
    /\ Bucket(mem, find_size_bin(PAGESIZE)) = RealBlocks(mem)
    /\ Len(RealBlocks(mem)) = 1

\* the place of block p in the walk over the arena
Pos(m, p) == CHOOSE i \in 1..Len(Blocks(m)) : Blocks(m)[i] = p
\* the physical neighbours of block p that are free (the prologue, first in
\* the walk, is allocated; after the last block comes the epilogue)
FreePrev(m, p) ==
    IF Pos(m, p) > 1 /\ IsFree(m, Blocks(m)[Pos(m, p) - 1])
    THEN {Blocks(m)[Pos(m, p) - 1]} ELSE {}
FreeNext(m, p) ==
    IF Pos(m, p) < Len(Blocks(m)) /\ IsFree(m, Blocks(m)[Pos(m, p) + 1])
    THEN {Blocks(m)[Pos(m, p) + 1]} ELSE {}
\* the sum of the sizes of a set of blocks
RECURSIVE SumSizes(_, _)
SumSizes(m, S) ==
    IF S = {} THEN 0
    ELSE LET bp == CHOOSE x \in S : TRUE
         IN  GET_SIZE(m, HDR(bp)) + SumSizes(m, S \ {bp})
\* the buckets whose list holds address bp
InBuckets(m, bp) == {x \in 0..(NO_LISTS - 1) : bp \in Range(Bucket(m, x))}

\* free(p) took the arena from m to m2: q is the merged block, s its size
MergedInto(m, m2, p, q, s) ==
    /\ q \in Range(RealBlocks(m2))
    /\ GET_INT(m2, HDR(q)) = PACK(s, 0)
    /\ GET_INT(m2, FTR(m2, q)) = PACK(s, 0)
    /\ {bp \in Range(FreeBlocks(m2)) :
           bp < p + GET_SIZE(m, HDR(p)) /\ p < bp + GET_SIZE(m2, HDR(bp))} = {q}
    /\ q <= p /\ p + GET_SIZE(m, HDR(p)) <= q + s
    /\ InBuckets(m2, q) = {find_size_bin(s)}
    /\ Cardinality({i \in 1..Len(Bucket(m2, find_size_bin(s))) :
                       Bucket(m2, find_size_bin(s))[i] = q}) = 1
    /\ \A r \in ({p} \cup FreePrev(m, p) \cup FreeNext(m, p)) \ {q} :
           InBuckets(m2, r) = {}
    /\ Len(RealBlocks(m2)) =
           Len(RealBlocks(m)) - Cardinality(FreePrev(m, p) \cup FreeNext(m, p))

\* C17: free(p) of an allocated block leaves exactly one free block over p's
\* bytes; its size is p's size plus the sizes of the physical neighbours that
\* were free, it starts at the previous neighbour when that one was free and
\* at p otherwise, it is on the list of exactly one bucket (that of its size),
\* once, and p and the absorbed neighbours, unless at the merged block's own
\* address, are on no list.
C17_FreeMerges ==
    [][(last'.op = "free" /\ last'.p # NULL)
       => MergedInto(mem, mem', last'.p,
                     IF FreePrev(mem, last'.p) # {}
                     THEN CHOOSE q \in FreePrev(mem, last'.p) : TRUE
                     ELSE last'.p,
                     SumSizes(mem, {last'.p} \cup FreePrev(mem, last'.p)
                                             \cup FreeNext(mem, last'.p)))]_vars

\* the middle one of three adjacent 32-byte blocks has just been freed, both
\* its neighbours being free: one 96-byte free block, no other
C17_Witness ==
    /\ last.op = "free" /\ last.n = 24
    /\ FreeBlocks(mem) = <<last.p - 32>>
    /\ GET_INT(mem, HDR(last.p - 32)) = PACK(96, 0)
    /\ Len(RealBlocks(mem)) = 2
    /\ Bucket(mem, find_size_bin(96)) = <<last.p - 32>>

\* adjusted sizes handed to place and find_fit on their own
Asizes == {16, 24, 32, 48, 64, 96, 160, 240, 248, 256}

\* the members of every bucket, as sets
Members(m) == [x \in 0..(NO_LISTS - 1) |-> Range(Bucket(m, x))]

\* place(bp, asize) took the arena from m to m2, bp being a free block of
\* `size` >= asize bytes
Placed(m, m2, bp, asize, size) ==
    IF size - asize >= 16
    THEN /\ GET_INT(m2, HDR(bp)) = PACK(asize, 1)
         /\ GET_INT(m2, FTR(m2, bp)) = PACK(asize, 1)
         /\ NEXT_BLK(m2, bp) = bp + asize
         /\ GET_INT(m2, HDR(bp + asize)) = PACK(size - asize, 0)
         /\ GET_INT(m2, FTR(m2, bp + asize)) = PACK(size - asize, 0)
         /\ NEXT_BLK(m2, bp + asize) = bp + size
         /\ Members(m2) =
                [x \in 0..(NO_LISTS - 1) |->
                    (Members(m)[x] \ {bp})
                    \cup (IF x = find_size_bin(size - asize) THEN {bp + asize} ELSE {})]
    ELSE /\ GET_INT(m2, HDR(bp)) = PACK(size, 1)
         /\ GET_INT(m2, FTR(m2, bp)) = PACK(size, 1)
         /\ NEXT_BLK(m2, bp) = bp + size
         /\ Members(m2) = [x \in 0..(NO_LISTS - 1) |-> Members(m)[x] \ {bp}]

\* C18: place(bp, asize) on a free block of size >= asize takes bp off its
\* list; when size - asize >= 16 it leaves an allocated block of asize bytes
\* at bp and right behind it a free block of size - asize bytes, put on the
\* list of its size; otherwise the whole block is allocated, its size
\* unchanged, and no block is put on any list.  Every other list is as before.
C18_Place ==
    \A bp \in Range(FreeBlocks(mem)) :
        \A asize \in Asizes :
            asize <= GET_SIZE(mem, HDR(bp))
            => Placed(mem, place(mem, bp, asize), bp, asize, GET_SIZE(mem, HDR(bp)))

\* malloc has just been given a whole block 8 bytes longer than the adjusted
\* request, while another free block is long enough to be split
C18_Witness ==
    /\ last.op = "malloc" /\ last.ret # NULL
    /\ GET_INT(mem, HDR(last.ret)) = PACK(Adjust(last.n) + 8, 1)
    /\ \E bp \in Range(FreeBlocks(mem)) : GET_SIZE(mem, HDR(bp)) >= 32

\* the members of bucket x that are at least asize bytes long, in list order
FitsIn(m, x, asize) ==
    SelectSeq(Bucket(m, x), LAMBDA bp : GET_SIZE(m, HDR(bp)) >= asize)
\* the buckets from that of asize up to the one before the last that hold a
\* block of at least asize bytes
FirstFitBuckets(m, asize) ==
    {x \in find_size_bin(asize)..(NO_LISTS - 2) : FitsIn(m, x, asize) # <<>>}
Lowest(S) == CHOOSE x \in S : \A y \in S : x <= y

\* C19: when some bucket from the one asize maps to up to the one before the
\* last holds a block of at least asize bytes, find_fit(asize) returns, from
\* the lowest such bucket, the first such block in list order.
C19_FirstFit ==
    \A asize \in Asizes :
        FirstFitBuckets(mem, asize) # {}
        => find_fit(mem, asize)
             = FitsIn(mem, Lowest(FirstFitBuckets(mem, asize)), asize)[1]

\* for a request of 96 bytes the head of the lowest bucket is too short, two
\* later members are long enough, a higher bucket holds a longer block, and
\* find_fit returns the second member
C19_Witness ==
    \E x \in 0..(NO_LISTS - 3) :
        /\ x = find_size_bin(96)
        /\ Len(Bucket(mem, x)) >= 3
        /\ GET_SIZE(mem, HDR(Bucket(mem, x)[1])) < 96
        /\ Len(FitsIn(mem, x, 96)) >= 2
        /\ FitsIn(mem, x + 1, 96) # <<>>
        /\ find_fit(mem, 96) = Bucket(mem, x)[2]

\* adjusted sizes handed to find_fit that map to the last bucket
LastAsizes == {32768, 36000, 40000}

\* the members of the last bucket that are at least asize bytes long and as
\* short as any such member, in list order
BestIn(m, asize) ==
    SelectSeq(FitsIn(m, NO_LISTS - 1, asize),
              LAMBDA bp : \A i \in 1..Len(FitsIn(m, NO_LISTS - 1, asize)) :
                  GET_SIZE(m, HDR(bp))
                    <= GET_SIZE(m, HDR(FitsIn(m, NO_LISTS - 1, asize)[i])))

\* find_fit(asize) gets to the last bucket and finds a fit there
ReachesLast(m, asize) ==
    FirstFitBuckets(m, asize) = {} /\ FitsIn(m, NO_LISTS - 1, asize) # <<>>

\* C20 as stated: when find_fit gets to the last bucket it returns the
\* shortest member of at least asize bytes, and of several such members of
\* the same size the one that comes first in list order.
C20_BestFitFirstOfTies ==
    \A asize \in LastAsizes :
        ReachesLast(mem, asize) => find_fit(mem, asize) = BestIn(mem, asize)[1]

\* C20, amended: when find_fit gets to the last bucket it returns the
\* shortest member of at least asize bytes, and of several such members of
\* the same size the one that comes last in list order.
C20_BestFitLastOfTies ==
    \A asize \in LastAsizes :
        ReachesLast(mem, asize)
        => find_fit(mem, asize) = BestIn(mem, asize)[Len(BestIn(mem, asize))]

\* the last bucket's list is 40000, 32768, 32768 bytes, or has the two
\* 32768-byte blocks after a longer one in some order, and find_fit(32768)
\* returns the last member
C20_Witness ==
    /\ Len(Bucket(mem, NO_LISTS - 1)) = 3
    /\ Len(BestIn(mem, 32768)) = 2
    /\ GET_SIZE(mem, HDR(Bucket(mem, NO_LISTS - 1)[1])) = 40000
    /\ find_fit(mem, 32768) = Bucket(mem, NO_LISTS - 1)[3]

\* word counts handed to grow_heap on its own
GrowWords == {1, 2, 3, 32}
\* the word count made even, in bytes
EvenBytes(words) == 8 * (words + (words % 2))
\* the last block of the arena when it is free
FreeTail(m) ==
    IF RealBlocks(m) # <<>> /\ IsFree(m, RealBlocks(m)[Len(RealBlocks(m))])
    THEN {RealBlocks(m)[Len(RealBlocks(m))]} ELSE {}

\* grow_heap(words) took the arena from m to g.mem and returned g.bp
Grown(m, g, words) ==
    /\ Len(g.mem) * 4 = Len(m) * 4 + EvenBytes(words)
    /\ \A bp \in Range(RealBlocks(m)) :
           ~IsFree(m, bp)
           => /\ GET_INT(g.mem, HDR(bp)) = GET_INT(m, HDR(bp))
              /\ Units(g.mem, bp, PayloadSize(m, bp)) = Units(m, bp, PayloadSize(m, bp))
              /\ GET_INT(g.mem, FTR(m, bp)) = GET_INT(m, FTR(m, bp))
    /\ g.bp = (IF FreeTail(m) # {} THEN CHOOSE bp \in FreeTail(m) : TRUE ELSE Brk(m))
    /\ GET_INT(g.mem, HDR(g.bp)) = PACK(EvenBytes(words) + SumSizes(m, FreeTail(m)), 0)
    /\ GET_INT(g.mem, FTR(g.mem, g.bp)) = GET_INT(g.mem, HDR(g.bp))
    /\ RealBlocks(g.mem)[Len(RealBlocks(g.mem))] = g.bp
    /\ Len(RealBlocks(g.mem)) = Len(RealBlocks(m)) + 1 - Cardinality(FreeTail(m))
    /\ NEXT_BLK(g.mem, g.bp) = Brk(g.mem)
    /\ GET_INT(g.mem, HDR(Brk(g.mem))) = PACK(0, 1)
    /\ InBuckets(g.mem, g.bp) = {find_size_bin(GET_SIZE(g.mem, HDR(g.bp)))}
    /\ \A bp \in FreeTail(m) \ {g.bp} : InBuckets(g.mem, bp) = {}

\* C21: a grow_heap(words) that succeeds makes the arena longer by exactly 8
\* bytes times the word count made even, leaves the allocated blocks as they
\* were, and returns one free block that covers the new bytes together with
\* the free block that ended the old arena, if any; the block is on the list
\* of its size and the epilogue header is right behind it.
C21_GrowHeap ==
    \A words \in GrowWords :
        grow_heap(mem, words, junk).bp # NULL
        => Grown(mem, grow_heap(mem, words, junk), words)

\* calls have filled the page, the arena ends with an allocated block, and
\* grow_heap(3) adds 32 bytes as a block of their own at the old break
C21_Witness ==
    /\ nops > 0 /\ FreeTail(mem) = {} /\ \E a \in live : NEXT_BLK(mem, a.p) = Brk(mem)
    /\ grow_heap(mem, 3, junk).bp = Brk(mem)
    /\ Len(grow_heap(mem, 3, junk).mem) = Len(mem) + 8

\* where the walk over the blocks stops: the first address behind the last
\* block it visits
WalkEnd(m) == NEXT_BLK(m, Blocks(m)[Len(Blocks(m))])

WellLinked(m, x) ==
    /\ Len(Bucket(m, x)) < Len(m)
    /\ Cardinality(Range(Bucket(m, x))) = Len(Bucket(m, x))
    /\ Bucket(m, x) # <<>> => PREVP(GET(m, Bucket(m, x)[1])) = 0
    /\ \A i \in 1..(Len(Bucket(m, x)) - 1) :
           /\ NEXTP(GET(m, Bucket(m, x)[i])) = Bucket(m, x)[i + 1]
           /\ PREVP(GET(m, Bucket(m, x)[i + 1])) = Bucket(m, x)[i]
    /\ Bucket(m, x) # <<>> => NEXTP(GET(m, Bucket(m, x)[Len(Bucket(m, x))])) = 0

\* C23: between calls every bucket's list is a well-formed doubly-linked
\* list: the head's stored predecessor is null, the stored predecessor of
\* every member's successor is that member, and the successor links from the
\* head reach null without passing a block twice.
C23_ListsWellLinked == \A x \in 0..(NO_LISTS - 1) : WellLinked(mem, x)

\* malloc has just taken the middle member (96 bytes) out of the list 64, 96,
\* 112 of bucket 1
C23_Witness ==
    /\ last.op = "malloc" /\ last.n = 88 /\ ~last.grew
    /\ Len(Bucket(mem, 1)) = 2
    /\ GET_SIZE(mem, HDR(Bucket(mem, 1)[1])) = 64
    /\ GET_SIZE(mem, HDR(Bucket(mem, 1)[2])) = 112
    /\ GET_INT(mem, HDR(last.ret)) = PACK(96, 1)

\* every bucket's list, in list order
Lists(m) == [x \in 0..(NO_LISTS - 1) |-> Bucket(m, x)]
\* the lists without block bp
ListsWithout(m, bp) ==
    [x \in 0..(NO_LISTS - 1) |-> SelectSeq(Bucket(m, x), LAMBDA b : b # bp)]
\* the lists of m with block bp, of `size` bytes, put at the head of its list
ListsWithHead(m, bp, size) ==
    [x \in 0..(NO_LISTS - 1) |->
        IF x = find_size_bin(size) THEN <<bp>> \o Bucket(m, x) ELSE Bucket(m, x)]
\* block a.p of the caller with its tags set free, as free leaves them before
\* it calls coalesce
TaggedFree(m, p) == PUT_TAGS(m, p, PACK(GET_SIZE(m, HDR(p)), 0))

\* C24: remove_from_list(b) of a member, whether the only one, the head, in
\* the middle or at the tail, leaves every list as it was but for b; and
\* lifo_insert(b) of a block that is on no list makes b the head of the list
\* of its size, the former members following in their order, every other
\* list as it was.
C24_ListEdits ==
    /\ \A bp \in Range(FreeBlocks(mem)) :
           /\ Lists(remove_from_list(mem, bp)) = ListsWithout(mem, bp)
           /\ Lists(lifo_insert(remove_from_list(mem, bp), bp))
                = ListsWithHead(remove_from_list(mem, bp), bp, GET_SIZE(mem, HDR(bp)))
    /\ \A a \in live :
           GET_SIZE(mem, HDR(a.p)) >= MIN_SIZE
           => Lists(lifo_insert(TaggedFree(mem, a.p), a.p))
                = ListsWithHead(mem, a.p, GET_SIZE(mem, HDR(a.p)))

\* a list of three members and a list of one: removal of the head, of the
\* middle member, of the tail and of an only member, and insertion before two
\* members
C24_Witness ==
    \E x, y \in 0..(NO_LISTS - 1) :
        /\ Len(Bucket(mem, x)) = 3 /\ Len(Bucket(mem, y)) = 1
        /\ Bucket(remove_from_list(mem, Bucket(mem, x)[2]), x)
             = <<Bucket(mem, x)[1], Bucket(mem, x)[3]>>
        /\ Bucket(remove_from_list(mem, Bucket(mem, y)[1]), y) = <<>>
        /\ \E a \in live : find_size_bin(GET_SIZE(mem, HDR(a.p))) = x

(* ------------------------------------------------------------------ *)
(* C25: the order of realloc's steps                                   *)
(* ------------------------------------------------------------------ *)
\* the block the fit search of realloc(p, n) finds: it runs on the arena in
\* which p has been freed and coalesced (mm.c:528-531)
FitAfterFree(m, p, n) == find_fit(free(m, p), Adjust(n))

\* the block grow_heap gives realloc(p, n) when that search fails (mm.c:532-533)
GrownAfterFree(m, p, n, fill) ==
    grow_heap(free(m, p), MAX(Adjust(n), PAGESIZE) \div WSIZE, fill).bp

\* the block at bp and the address p share bytes
Contains(m, bp, p) == bp <= p /\ p < bp + GET_SIZE(m, HDR(bp))

\* C25: a realloc(p, n) step with p non-null and n > 0 returns the block that
\* find_fit finds in the arena in which p is already free and coalesced, without
\* growth; only when that search fails it returns what grow_heap gives (NULL
\* on failure).  The block returned is placed (allocated, at least the adjusted
\* size) and its first payload word is the first payload word p had before the
\* call, although free wrote the list links over it.
C25_ReallocOrder ==
    [][(last'.op = "realloc" /\ last'.p # NULL /\ last'.n > 0) =>
          /\ FitAfterFree(mem, last'.p, last'.n) # NULL
                => (last'.ret = FitAfterFree(mem, last'.p, last'.n) /\ ~last'.grew)
          /\ FitAfterFree(mem, last'.p, last'.n) = NULL
                => last'.ret = GrownAfterFree(mem, last'.p, last'.n, junk)
          /\ last'.ret # NULL
                => /\ GET(mem', last'.ret) = GET(mem, last'.p)
                   /\ GET_ALLOC(mem', HDR(last'.ret)) = 1
                   /\ GET_SIZE(mem', HDR(last'.ret)) >= Adjust(last'.n)]_vars

\* a realloc served by the merged block that contains the old one: it starts
\* below the old pointer and reaches beyond it
C25_Witness ==
    /\ last.op = "realloc" /\ last.p # NULL /\ last.n > 0
    /\ last.ret # NULL /\ last.ret < last.p /\ ~last.grew
    /\ Contains(mem, last.ret, last.p)

(* ------------------------------------------------------------------ *)
(* C26: realloc that fails to grow                                     *)
(* ------------------------------------------------------------------ *)
\* the real block of m whose bytes include address p, as a set
BlockOf(m, p) == {bp \in Range(RealBlocks(m)) : Contains(m, bp, p)}

\* C26: a realloc(p, n) step with p non-null and n > 0 that returns NULL leaves
\* the arena as free(p) leaves it, not as it was: the block that holds p is
\* marked free, has no free neighbour, is a member of the bucket of its size,
\* and p is no longer among the caller's allocations.
C26_FailedReallocFrees ==
    [][(last'.op = "realloc" /\ last'.p # NULL /\ last'.n > 0 /\ last'.ret = NULL) =>
          /\ mem' = free(mem, last'.p)
          /\ mem' # mem
          /\ \A bp \in BlockOf(mem', last'.p) :
                 /\ GET_ALLOC(mem', HDR(bp)) = 0
                 /\ InBuckets(mem', bp) = {find_size_bin(GET_SIZE(mem', HDR(bp)))}
                 /\ GET_ALLOC(mem', HDR(NEXT_BLK(mem', bp))) = 1
                 /\ GET_ALLOC(mem', HDR(PREV_BLK(mem', bp))) = 1
          /\ Cardinality(BlockOf(mem', last'.p)) = 1
          /\ \A a \in live' : a.p # last'.p]_vars

\* a realloc has just returned NULL for a held block, which now lies inside a
\* free block that merged with a free neighbour
C26_Witness ==
    /\ last.op = "realloc" /\ last.p # NULL /\ last.n > 0 /\ last.ret = NULL
    /\ \E bp \in BlockOf(mem, last.p) :
           IsFree(mem, bp) /\ bp < last.p /\ bp \in Range(Bucket(mem, find_size_bin(GET_SIZE(mem, HDR(bp)))))

(* ------------------------------------------------------------------ *)
(* C27: the bucket lists hold exactly the free blocks                  *)
(* ------------------------------------------------------------------ *)
\* how many times address bp occurs in the list of bucket x
Occurrences(m, x, bp) == Cardinality({i \in 1..Len(Bucket(m, x)) : Bucket(m, x)[i] = bp})

RequestHi == IF last.op = "malloc_wide" THEN last.k ELSE 0
RequestLo == last.n
DocumentedAsizeLo == IF RequestHi = 0 THEN Adjust(RequestLo) ELSE ALIGN(RequestLo + WSIZE)

\* hi * 2^32 + lo <= x, and hi * 2^32 + lo = x, for an x below 2^31
AtMost(hi, lo, x) == hi = 0 /\ lo <= x
Equal(hi, lo, x) == hi = 0 /\ lo = x

\* C28: after a malloc(n), n > 0, that returned a block: the block is marked
\* allocated, its size is the adjusted size of n or that plus 8 (so less than
\* 16 bytes are lost to a refused split), and its payload capacity (size - 8)
\* is at least n.
C28_MallocSize ==
    (last.op \in {"malloc", "malloc_wide"} /\ last.ret # NULL) =>
        /\ GET_ALLOC(mem, HDR(last.ret)) = 1
        /\ \E d \in {0, 8} :
               Equal(RequestHi, DocumentedAsizeLo + d, GET_SIZE(mem, HDR(last.ret)))
        /\ AtMost(RequestHi, RequestLo, GET_SIZE(mem, HDR(last.ret)) - WSIZE)

(* ------------------------------------------------------------------ *)
(* C29: what an operation may write                                    *)
(* ------------------------------------------------------------------ *)
\* the addresses of the 4-byte units of m whose value differs in m2
Changed(m, m2) ==
    {HeapLo + 4 * (i - 1) : i \in {j \in 1..Len(m) : Unit(m, j) # Unit(m2, j)}}

\* the addresses of the units of the payload of block bp: [bp, bp + size - 8)
PayloadUnits(m, bp) ==
    IF bp = NULL
    THEN {}
    ELSE {bp + 4 * (i - 1) : i \in 1..(PayloadSize(m, bp) \div 4)}

\* the units of the list heads, of the headers and footers of all blocks and
\* of the epilogue header
HeadUnits == {FULL_HEAP + 4 * (i - 1) : i \in 1..(2 * NO_LISTS)}
TagUnits(m) ==
    {HDR(bp) : bp \in Range(Blocks(m))} \cup {FTR(m, bp) : bp \in Range(Blocks(m))}
    \cup {HDR(WalkEnd(m))}

\* the units of the link word of every free block
LinkUnits(m) == UNION {{bp, bp + 4} : bp \in Range(FreeBlocks(m))}

CanP(s) == s > 0
P(s) == s - 1
V(s) == s + 1

\* thread t moves on to label l
Goto(t, l) == pc' = [pc EXCEPT ![t] = l]

\* the queue q with its first entry for request r moved to the rear
MoveToRear(q, r) ==
    IF \E i \in 1..Len(q) : q[i] = r
    THEN LET i == CHOOSE k \in 1..Len(q) : q[k] = r /\ \A j \in 1..(k - 1) : q[j] # r
         IN  SubSeq(q, 1, i - 1) \o SubSeq(q, i + 1, Len(q)) \o <<r>>
    ELSE q

\* main: Accept, then Pthread_create(&tid, NULL, read_req, connfdp)
Pthread_create(t) ==
    /\ pc[t] = "idle"
    /\ \E r \in Requests : req' = [req EXCEPT ![t] = r]
    /\ Goto(t, "read_req")
    /\ UNCHANGED <<hit, caching, serverfd, wr_mutex, rd_mutex, readcnt, cache, allocVars>>

\* read_req reads the request and calls handle_req, which parses it: a
\* request too short or not parsed makes handle_req return at once
read_req(t) ==
    /\ pc[t] = "read_req"
    /\ \E parsed \in BOOLEAN : Goto(t, IF parsed THEN "connct" ELSE "Close")
    /\ UNCHANGED <<req, hit, caching, serverfd, wr_mutex, rd_mutex, readcnt, cache, allocVars>>

\* connct calls sync_read.  A reader enters: P(&rd_mutex); readcnt++
sync_read_enter(t) ==
    /\ pc[t] = "connct"
    /\ CanP(rd_mutex)
    /\ rd_mutex' = P(rd_mutex)
    /\ readcnt' = readcnt + 1
    /\ Goto(t, IF readcnt' = 1 THEN "first_reader" ELSE "entered")
    /\ UNCHANGED <<req, hit, caching, serverfd, wr_mutex, cache, allocVars>>

\* the first reader in locks the writers out: P(&wr_mutex), rd_mutex held
sync_read_first(t) ==
    /\ pc[t] = "first_reader"
    /\ CanP(wr_mutex)
    /\ wr_mutex' = P(wr_mutex)
    /\ Goto(t, "entered")
    /\ UNCHANGED <<req, hit, caching, serverfd, rd_mutex, readcnt, cache, allocVars>>

\* V(&rd_mutex), then the queue is searched for the request
sync_read_lookup(t) ==
    /\ pc[t] = "entered"
    /\ rd_mutex' = V(rd_mutex)
    /\ hit' = [hit EXCEPT ![t] = \E i \in 1..Len(cache) : cache[i] = req[t]]
    /\ Goto(t, "leave")
    /\ UNCHANGED <<req, caching, serverfd, wr_mutex, readcnt, cache, allocVars>>

\* the reader leaves: P(&rd_mutex); readcnt--; the last one out lets the
\* writers in again, V(&wr_mutex); V(&rd_mutex)
sync_read_leave(t) ==
    /\ pc[t] = "leave"
    /\ CanP(rd_mutex)
    /\ readcnt' = readcnt - 1
    /\ wr_mutex' = IF readcnt' = 0 THEN V(wr_mutex) ELSE wr_mutex
    /\ rd_mutex' = V(P(rd_mutex))
    /\ Goto(t, IF hit[t] THEN "hit" ELSE "Open_clientfd")
    /\ UNCHANGED <<req, hit, caching, serverfd, cache, allocVars>>

\* a hit moves the entry to the rear of the queue, as a writer: P(&wr_mutex)
sync_read_hit(t) ==
    /\ pc[t] = "hit"
    /\ CanP(wr_mutex)
    /\ wr_mutex' = P(wr_mutex)
    /\ Goto(t, "move_to_rear")
    /\ UNCHANGED <<req, hit, caching, serverfd, rd_mutex, readcnt, cache, allocVars>>

\* the entry is moved, V(&wr_mutex); sync_read returns 1, connct returns 2 and
\* handle_req sets caching = 0
sync_read_move(t) ==
    /\ pc[t] = "move_to_rear"
    /\ cache' = MoveToRear(cache, req[t])
    /\ wr_mutex' = V(wr_mutex)
    /\ caching' = [caching EXCEPT ![t] = 0]
    /\ Goto(t, "switch")
    /\ UNCHANGED <<req, hit, serverfd, rd_mutex, readcnt, allocVars>>

\* connct after a miss: Open_clientfd fails, or the request cannot be written
\* to the server: connct returns a negative value, handle_req closes serverfd
\* and returns
connct_fails(t) ==
    /\ pc[t] = "Open_clientfd"
    /\ Goto(t, "Close")
    /\ UNCHANGED <<req, hit, caching, serverfd, wr_mutex, rd_mutex, readcnt, cache, allocVars>>

\* connct after a miss: the server is connected and the request sent; connct
\* returns 1 and handle_req sets caching = 1
connct_connects(t) ==
    /\ pc[t] = "Open_clientfd"
    /\ serverfd' = [serverfd EXCEPT ![t] = TRUE]
    /\ caching' = [caching EXCEPT ![t] = 1]
    /\ Goto(t, "response")
    /\ UNCHANGED <<req, hit, wr_mutex, rd_mutex, readcnt, cache, allocVars>>

\* handle_req reads the response into its buffer: when malloc, parse_resp or
\* get_cont fails, caching = -1
handle_req_response(t) ==
    /\ pc[t] = "response"
    /\ \E c \in {1, -1} : caching' = [caching EXCEPT ![t] = c]
    /\ Goto(t, "switch")
    /\ UNCHANGED <<req, hit, serverfd, wr_mutex, rd_mutex, readcnt, cache, allocVars>>

\* variant: case 0 has no break and falls through into case 1
handle_req_switch_no_break(t) ==
    /\ pc[t] = "switch"
    /\ Goto(t, IF caching[t] \in {0, 1} THEN "P" ELSE "Close_serverfd")
    /\ UNCHANGED <<req, hit, caching, serverfd, wr_mutex, rd_mutex, readcnt, cache, allocVars>>

\* switch (caching): case 0 breaks, case 1 goes for the cache, case -1 closes
\* the server connection
handle_req_switch(t) ==
    /\ pc[t] = "switch"
    /\ Goto(t, IF caching[t] = 0 THEN "Close"
               ELSE IF caching[t] = 1 THEN "P" ELSE "Close_serverfd")
    /\ UNCHANGED <<req, hit, caching, serverfd, wr_mutex, rd_mutex, readcnt, cache, allocVars>>

\* variant: case 1 calls add_entry without waiting for the semaphore
handle_req_P_no_wait(t) ==
    /\ pc[t] = "P"
    /\ wr_mutex' = IF CanP(wr_mutex) THEN P(wr_mutex) ELSE wr_mutex
    /\ Goto(t, "add_entry")
    /\ UNCHANGED <<req, hit, caching, serverfd, rd_mutex, readcnt, cache, allocVars>>

\* case 1: P(&wr_mutex)
handle_req_P(t) ==
    /\ pc[t] = "P"
    /\ CanP(wr_mutex)
    /\ wr_mutex' = P(wr_mutex)
    /\ Goto(t, "add_entry")
    /\ UNCHANGED <<req, hit, caching, serverfd, rd_mutex, readcnt, cache, allocVars>>

\* add_entry(in_buf, resp.buf, resp.fpos): a new entry at the rear of the queue
add_entry(t) ==
    /\ pc[t] = "add_entry"
    /\ cache' = Append(cache, req[t])
    /\ Goto(t, "V")
    /\ UNCHANGED <<req, hit, caching, serverfd, wr_mutex, rd_mutex, readcnt, allocVars>>

\* V(&wr_mutex), falling through to case -1
handle_req_V(t) ==
    /\ pc[t] = "V"
    /\ wr_mutex' = V(wr_mutex)
    /\ Goto(t, "Close_serverfd")
    /\ UNCHANGED <<req, hit, caching, serverfd, rd_mutex, readcnt, cache, allocVars>>

\* case -1: Close(serverfd); handle_req returns
handle_req_Close(t) ==
    /\ pc[t] = "Close_serverfd"
    /\ serverfd' = [serverfd EXCEPT ![t] = FALSE]
    /\ Goto(t, "Close")
    /\ UNCHANGED <<req, hit, caching, wr_mutex, rd_mutex, readcnt, cache, allocVars>>

\* read_req: Close(fd); the thread ends
read_req_Close(t) ==
    /\ pc[t] = "Close"
    /\ Goto(t, "done")
    /\ UNCHANGED <<req, hit, caching, serverfd, wr_mutex, rd_mutex, readcnt, cache, allocVars>>

\* the proxy does not use the allocator of mm.c: no arena
InitProxy ==
    /\ main
    /\ mem = <<>>
    /\ live = {}
    /\ last = Call("main", NULL, 0, 0, 0)
    /\ junk = 0
    /\ nops = 0
    /\ mem_max_addr = HeapLo

NextProxy ==
    \E t \in Threads :
        \/ Pthread_create(t)
        \/ read_req(t)
        \/ sync_read_enter(t)
        \/ sync_read_first(t)
        \/ sync_read_lookup(t)
        \/ sync_read_leave(t)
        \/ sync_read_hit(t)
        \/ sync_read_move(t)
        \/ connct_fails(t)
        \/ connct_connects(t)
        \/ handle_req_response(t)
        \/ handle_req_switch(t)
        \/ handle_req_P(t)
        \/ add_entry(t)
        \/ handle_req_V(t)
        \/ handle_req_Close(t)
        \/ read_req_Close(t)

SpecProxy == InitProxy /\ [][NextProxy]_vars

\* the threads that are inside add_entry
InAddEntry == {t \in Threads : pc[t] = "add_entry"}

\* C30: add_entry runs only between P(&wr_mutex) and V(&wr_mutex) of a
\* semaphore initialised to 1: while a thread is inside add_entry the semaphore
\* is 0, the semaphore is never above 1, and at most one thread is inside
\* add_entry at any time.
C30_OneInAddEntry ==
    /\ Cardinality(InAddEntry) <= 1
    /\ InAddEntry # {} => wr_mutex = 0
    /\ wr_mutex \in {0, 1}

\* a thread is inside add_entry while a second waits at its P(&wr_mutex) and a
\* third waits for the semaphore as the first reader
C30_Witness ==
    /\ Cardinality(InAddEntry) = 1
    /\ \E t \in Threads : pc[t] = "P"
    /\ \E t \in Threads : pc[t] = "first_reader"

\* where a thread can be between a lookup that found its request and its end
AfterHit == {"leave", "hit", "move_to_rear", "switch", "Close", "done"}

\* C31: a thread whose cache lookup found its request answers from the cache:
\* from then on it holds no connection to the origin server, it is at none of
\* the steps that connect, read the response or add an entry, and none of its
\* steps makes the cache queue longer.
C31_HitServedFromCache ==
    [][\A t \in Threads :
          hit'[t] =>
              /\ ~serverfd'[t]
              /\ pc'[t] \in AfterHit
              /\ (hit[t] /\ pc'[t] # pc[t]) => Len(cache') = Len(cache)]_vars

\* a thread has finished after a hit, the queue holding the single entry that
\* another thread added after a miss and a connection to the server
C31_Witness ==
    \E t, u \in Threads :
        /\ hit[t] /\ pc[t] = "done" /\ caching[t] = 0
        /\ ~hit[u] /\ pc[u] = "done" /\ caching[u] = 1 /\ req[u] = req[t]
        /\ cache = <<req[t]>>

====
